---- MODULE Spec2Model ----
(***************************************************************************)
(* Model of the e-mail relay service: the blacklist store                  *)
(* (BlacklistManager, dataBaseManager.ts), its facade (EmailBlocker,       *)
(* eMailBlocker.ts), the relay (EmailService, eMailService.ts) and the     *)
(* handlers of POST /api/send-email and GET /api/service-status            *)
(* (server.ts).                                                            *)
(*                                                                         *)
(* Spec       the constructed service answering requests                   *)
(* StoreSpec  the store alone, called directly, over a file that is also   *)
(*            edited from outside the process                              *)
(* RaceSpec   overlapping calls of blockEmail and unblockEmail             *)
(* LifeSpec   construction, verification, status and close of the service  *)
(* SanitizeSpec  one request whose message is drawn from the strings over  *)
(*            a small alphabet                                             *)
(* RateSpec   the routes behind their rate limiters (rateLimiterConfig.ts) *)
(* FaultSpec  the store alone with a backup that cannot always be written  *)
(* RelaySpec  valid requests of several senders relayed one after another  *)
(* EnvSpec    the service over a file that is edited from outside and not  *)
(*            always writable                                              *)
(*                                                                         *)
(* Strings are sequences of one-character strings, so that trim,           *)
(* toLowerCase, the address pattern and the message filter are computed    *)
(* character by character as the JavaScript does.                          *)
(***************************************************************************)
EXTENDS Integers, Sequences, FiniteSets, TLC

VARIABLES file, backup, blackList, blockedEmails, recipientEmail, last,
          svc, tasks, rate

vars == <<file, backup, blackList, blockedEmails, recipientEmail, last,
          svc, tasks, rate>>

(***************************************************************************)
(* Bounds of the model.                                                    *)
(***************************************************************************)
\* The store keeps appending: addMailToList is only taken while the file
\* holds fewer than MaxEntries entries.
MaxEntries == 4

(***************************************************************************)
(* JavaScript values.                                                      *)
(***************************************************************************)
\* `undefined` for a string-typed field: a one-element sequence that no
\* sequence of single characters equals.
Undefined == <<"undefined">>

\* A value that is a number, a string constant or undefined (error.code).
JsNum(n) == [t |-> "number", n |-> n, s |-> ""]
JsStr(x) == [t |-> "string", n |-> 0, s |-> x]
JsUndef == [t |-> "undefined", n |-> 0, s |-> ""]

(***************************************************************************)
(* String functions of the JavaScript runtime.                             *)
(***************************************************************************)
UpperChars == <<"A","B","C","D","E","F","G","H","I","J","K","L","M",
                "N","O","P","Q","R","S","T","U","V","W","X","Y","Z">>
LowerChars == <<"a","b","c","d","e","f","g","h","i","j","k","l","m",
                "n","o","p","q","r","s","t","u","v","w","x","y","z">>

\* \s of a regular expression and the characters String.prototype.trim strips.
WhiteSpace == {" ", "\t", "\n"}

LowerOf == [c \in {UpperChars[i] : i \in 1..Len(UpperChars)} |->
               LowerChars[CHOOSE i \in 1..Len(UpperChars) : UpperChars[i] = c]]

toLowerChar(c) == IF c \in DOMAIN LowerOf THEN LowerOf[c] ELSE c

\* String.prototype.toLowerCase
toLowerCase(s) == [i \in 1..Len(s) |-> toLowerChar(s[i])]

RECURSIVE trimStart(_)
trimStart(s) ==
    IF s # <<>> /\ Head(s) \in WhiteSpace THEN trimStart(Tail(s)) ELSE s

RECURSIVE trimEnd(_)
trimEnd(s) ==
    IF s # <<>> /\ s[Len(s)] \in WhiteSpace
    THEN trimEnd(SubSeq(s, 1, Len(s) - 1))
    ELSE s

\* String.prototype.trim
trim(s) == trimEnd(trimStart(s))

\* !x?.trim() : true for undefined and for a string that is blank after trim
IsBlank(x) == x = Undefined \/ trim(x) = <<>>

\* [^\s@]+ : a non-empty run without white space and without @
AddressRun(s, from, to) ==
    /\ from <= to
    /\ \A k \in from..to : s[k] \notin WhiteSpace /\ s[k] # "@"

\* Mutant: the pattern without the dot, /^[^\s@]+@[^\s@]+$/
emailRegexNoDot(s) ==
    \E i \in 1..Len(s) :
        s[i] = "@" /\ AddressRun(s, 1, i - 1) /\ AddressRun(s, i + 1, Len(s))

\* /^[^\s@]+@[^\s@]+\.[^\s@]+$/.test(s)
emailRegexTest(s) ==
    \E i \in 1..Len(s) :
        /\ s[i] = "@"
        /\ AddressRun(s, 1, i - 1)
        /\ \E j \in (i + 1)..Len(s) :
            /\ s[j] = "."
            /\ AddressRun(s, i + 1, j - 1)
            /\ AddressRun(s, j + 1, Len(s))

\* The end of the first /<[^>]*>/ match that starts at position i of s, or 0.
TagEnd(s, i) ==
    IF s[i] = "<" /\ \E k \in (i + 1)..Len(s) : s[k] = ">"
    THEN CHOOSE k \in (i + 1)..Len(s) :
            s[k] = ">" /\ \A m \in (i + 1)..(k - 1) : s[m] # ">"
    ELSE 0

RECURSIVE RemoveTags(_, _)
\* Mutant: the matches are replaced by the empty string
RemoveTags(s, i) ==
    IF i > Len(s) THEN <<>>
    ELSE IF TagEnd(s, i) # 0 THEN RemoveTags(s, TagEnd(s, i) + 1)
    ELSE <<s[i]>> \o RemoveTags(s, i + 1)

RECURSIVE ReplaceFirstTag(_, _)
\* Mutant: the pattern without its g flag replaces the first match only
ReplaceFirstTag(s, i) ==
    IF i > Len(s) THEN <<>>
    ELSE IF TagEnd(s, i) # 0 THEN <<"*">> \o SubSeq(s, TagEnd(s, i) + 1, Len(s))
    ELSE <<s[i]>> \o ReplaceFirstTag(s, i + 1)

RECURSIVE ReplaceTags(_, _)
\* s.replace(/<[^>]*>/g, '*') from position i on
ReplaceTags(s, i) ==
    IF i > Len(s) THEN <<>>
    ELSE IF TagEnd(s, i) # 0 THEN <<"*">> \o ReplaceTags(s, TagEnd(s, i) + 1)
    ELSE <<s[i]>> \o ReplaceTags(s, i + 1)

filterMessage(message) == trim(ReplaceTags(message, 1))

(***************************************************************************)
(* BlacklistManager (dataBaseManager.ts).  The operators take and return   *)
(* a record s with the fields file, backup, blackList and blockedEmails.   *)
(* A file is absent, unparsable ("corrupt") or holds a list of entries; a   *)
(* file that holds a list may be "readonly": it is read, and writing it    *)
(* throws.  The backup may be "locked": copying onto it throws.            *)
(***************************************************************************)
AbsentFile == [st |-> "absent", data |-> <<>>]
CorruptFile == [st |-> "corrupt", data |-> <<>>]
FileOf(list) == [st |-> "ok", data |-> list]

\* formatDate(new Date()): one day lasts a whole behaviour
formatDate == "dd.mm.yyyy"

User1 == <<"u","s","e","r","1","@","d","o","m","a","i","n",".","c","o","m">>
BlockedEmail ==
    <<"b","l","o","c","k","e","d",".","e","m","a","i","l","@",
      "e","x","a","m","p","l","e",".","o","r","g">>

\* ensureFileExists: initialContent
initialContent ==
    << [email |-> User1, blockedAt |-> formatDate, reason |-> "Spam"],
       [email |-> BlockedEmail, blockedAt |-> formatDate, reason |-> "Scam"] >>

\* Mutant: the seed written whether or not the file exists
ensureFileExistsAlways(s) ==
    [s EXCEPT !.file = FileOf(initialContent), !.blackList = initialContent]

ensureFileExists(s) ==
    IF s.file.st = "absent"
    THEN [s EXCEPT !.file = FileOf(initialContent), !.blackList = initialContent]
    ELSE s

\* loadData: a file that does not parse throws inside the try, and the catch
\* only logs: blackList keeps what it held.
loadData(s) ==
    LET e == ensureFileExists(s)
    IN  IF e.file.st = "corrupt" THEN e
        ELSE [e EXCEPT !.blackList = e.file.data]

LockedFile == [st |-> "locked", data |-> <<>>]
ReadOnly(f) == [f EXCEPT !.st = "readonly"]

\* createBackUp: copyFileSync in a try of its own; the catch only logs.
createBackUp(s) ==
    IF s.backup.st = "locked" THEN s ELSE [s EXCEPT !.backup = s.file]

\* Mutant: the backup is taken first and its failure ends the save
saveDataBackupFirst(s) ==
    IF s.backup.st = "locked" \/ s.file.st = "readonly" THEN s
    ELSE [s EXCEPT !.file = FileOf(s.blackList), !.backup = FileOf(s.blackList)]

\* saveData: writeFileSync, then createBackUp, in one try; the catch only
\* logs, so a write that throws leaves the file and the backup as they were.
saveData(s) ==
    IF s.file.st = "readonly" THEN s
    ELSE createBackUp([s EXCEPT !.file = FileOf(s.blackList)])

getBlacklist(s) == loadData(s)

\* Mutant: the new entry saved without the entries loaded before it
addMailToListFresh(s, email, reason) ==
    LET l == loadData(s)
        cleanEmail == toLowerCase(trim(email))
        newEntry == [email |-> cleanEmail, blockedAt |-> formatDate, reason |-> reason]
    IN  saveData([l EXCEPT !.blackList = <<newEntry>>])

addMailToList(s, email, reason) ==
    LET l == loadData(s)
        cleanEmail == toLowerCase(trim(email))
        newEntry == [email |-> cleanEmail, blockedAt |-> formatDate, reason |-> reason]
    IN  saveData([l EXCEPT !.blackList = Append(l.blackList, newEntry)])

\* Array.prototype.filter(entry => entry.email !== cleanEmail)
FilterOut(list, cleanEmail) == SelectSeq(list, LAMBDA entry : entry.email # cleanEmail)

\* Mutant: the list saved whether or not an entry was removed
removeMailFromListAlwaysSave(s, email) ==
    LET l == loadData(s)
        cleanEmail == toLowerCase(trim(email))
        filtered == FilterOut(l.blackList, cleanEmail)
        wasRemoved == Len(filtered) < Len(l.blackList)
    IN  [s |-> saveData([l EXCEPT !.blackList = filtered]), wasRemoved |-> wasRemoved]

removeMailFromList(s, email) ==
    LET l == loadData(s)
        cleanEmail == toLowerCase(trim(email))
        filtered == FilterOut(l.blackList, cleanEmail)
        wasRemoved == Len(filtered) < Len(l.blackList)
        f == [l EXCEPT !.blackList = filtered]
    IN  [s |-> IF wasRemoved THEN saveData(f) ELSE f, wasRemoved |-> wasRemoved]

\* Mutant: the argument trimmed but not lower-cased
isBlockedMailExact(s, email) ==
    LET l == loadData(s)
        cleanEmail == trim(email)
    IN  [s |-> l,
         result |-> \E i \in 1..Len(l.blackList) :
                        toLowerCase(l.blackList[i].email) = cleanEmail]

isBlockedMail(s, email) ==
    LET l == loadData(s)
        cleanEmail == toLowerCase(trim(email))
    IN  [s |-> l,
         result |-> \E i \in 1..Len(l.blackList) :
                        toLowerCase(l.blackList[i].email) = cleanEmail]

(***************************************************************************)
(* EmailBlocker (eMailBlocker.ts)                                          *)
(***************************************************************************)
\* list.map(entry => entry.email)
Emails(list) == [i \in 1..Len(list) |-> list[i].email]

\* Array.prototype.includes
Includes(list, x) == \E i \in 1..Len(list) : list[i] = x

RefreshMirror(s) ==
    LET g == getBlacklist(s)
    IN  [g EXCEPT !.blockedEmails = Emails(g.blackList)]

blockAddress(s, email) ==
    LET cleanEmail == toLowerCase(trim(email))
    IN  IF ~Includes(s.blockedEmails, cleanEmail)
        THEN addMailToList(s, cleanEmail, "Spam")
        ELSE s

syncData(s) == RefreshMirror(saveData(s))

unblockAddress(s, email) ==
    LET cleanEmail == toLowerCase(trim(email))
        r == removeMailFromList(s, cleanEmail)
    IN  IF r.wasRemoved THEN RefreshMirror(r.s) ELSE r.s

\* Mutant: the block check answered from the mirror instead of the store
isBlockedAddressMirror(s, email) ==
    [s |-> s, result |-> Includes(s.blockedEmails, toLowerCase(trim(email)))]

isBlockedAddress(s, email) == isBlockedMail(s, toLowerCase(trim(email)))

getBlockedList(s) == s.blockedEmails

(***************************************************************************)
(* EmailService (eMailService.ts)                                          *)
(***************************************************************************)
\* A message text: a template literal `pre${arg}post`, or a constant (arg empty).
Text(x) == [pre |-> x, arg |-> <<>>, post |-> ""]
Template(pre, arg, post) == [pre |-> pre, arg |-> arg, post |-> post]

\* EmailValidationErrorCode
MissingData == 400
BlockedSender == 403

\* What a call threw: nothing, or a value that is an Error (instanceof Error)
\* or not, with its message and its code property.
NoError == [thrown |-> FALSE, isError |-> FALSE, name |-> "",
            message |-> Text(""), code |-> JsUndef, messageId |-> ""]
EmailValidationError(code, message) ==
    [thrown |-> TRUE, isError |-> TRUE, name |-> "EmailValidationError",
     message |-> message, code |-> JsNum(code), messageId |-> ""]
\* Destructuring `undefined` (line 120) throws a TypeError, which has no code.
TypeError(message) ==
    [thrown |-> TRUE, isError |-> TRUE, name |-> "TypeError",
     message |-> Text(message), code |-> JsUndef, messageId |-> ""]

\* The request body as the handler hands it on: body is FALSE when req.body is
\* undefined, and a field is Undefined when the body lacks it.
NoBody == [body |-> FALSE, senderName |-> Undefined, senderEmail |-> Undefined,
           subject |-> Undefined, message |-> Undefined]

\* Mutant: the block check made first, before the field and format checks
validateEmailDataBlockFirst(s, recipient, emailData) ==
    IF ~emailData.body THEN
        [s |-> s, error |-> TypeError("Cannot destructure property 'senderName' of 'emailData' as it is undefined.")]
    ELSE IF emailData.senderEmail # Undefined
            /\ isBlockedAddress(s, emailData.senderEmail).result THEN
        [s |-> isBlockedAddress(s, emailData.senderEmail).s,
         error |-> EmailValidationError(BlockedSender,
                     Template("Adress '", emailData.senderEmail, "' is blocked."))]
    ELSE IF IsBlank(emailData.senderName) THEN
        [s |-> s, error |-> EmailValidationError(MissingData, Text("Sender name is required"))]
    ELSE IF IsBlank(emailData.senderEmail) THEN
        [s |-> s, error |-> EmailValidationError(MissingData, Text("Sender email is required"))]
    ELSE IF IsBlank(recipient) THEN
        [s |-> s, error |-> EmailValidationError(MissingData, Text("Recipient email is required"))]
    ELSE IF IsBlank(emailData.subject) THEN
        [s |-> s, error |-> EmailValidationError(MissingData, Text("Subject is required"))]
    ELSE IF IsBlank(emailData.message) THEN
        [s |-> s, error |-> EmailValidationError(MissingData, Text("Message is required"))]
    ELSE IF ~emailRegexTest(emailData.senderEmail) THEN
        [s |-> s, error |-> EmailValidationError(MissingData, Text("Invalid sender email format"))]
    ELSE IF ~emailRegexTest(recipient) THEN
        [s |-> s, error |-> EmailValidationError(MissingData, Text("Invalid recipient email format"))]
    ELSE [s |-> s, error |-> NoError]

\* validateEmailData: the state after it (the block check loads the store) and
\* what it threw.
validateEmailData(s, recipient, emailData) ==
    IF ~emailData.body THEN
        [s |-> s, error |-> TypeError("Cannot destructure property 'senderName' of 'emailData' as it is undefined.")]
    ELSE IF IsBlank(emailData.senderName) THEN
        [s |-> s, error |-> EmailValidationError(MissingData, Text("Sender name is required"))]
    ELSE IF IsBlank(emailData.senderEmail) THEN
        [s |-> s, error |-> EmailValidationError(MissingData, Text("Sender email is required"))]
    ELSE IF IsBlank(recipient) THEN
        [s |-> s, error |-> EmailValidationError(MissingData, Text("Recipient email is required"))]
    ELSE IF IsBlank(emailData.subject) THEN
        [s |-> s, error |-> EmailValidationError(MissingData, Text("Subject is required"))]
    ELSE IF IsBlank(emailData.message) THEN
        [s |-> s, error |-> EmailValidationError(MissingData, Text("Message is required"))]
    ELSE IF ~emailRegexTest(emailData.senderEmail) THEN
        [s |-> s, error |-> EmailValidationError(MissingData, Text("Invalid sender email format"))]
    ELSE IF ~emailRegexTest(recipient) THEN
        [s |-> s, error |-> EmailValidationError(MissingData, Text("Invalid recipient email format"))]
    ELSE
        LET b == isBlockedAddress(s, emailData.senderEmail)
        IN  IF b.result
            THEN [s |-> b.s,
                  error |-> EmailValidationError(BlockedSender,
                              Template("Adress '", emailData.senderEmail, "' is blocked."))]
            ELSE [s |-> b.s, error |-> NoError]

\* The template literal `"${name}" <${address}>` of from and replyTo.
Mailbox(name, address) ==
    <<"\"">> \o name \o <<"\"", " ", "<">> \o address \o <<">">>

\* The template literal `Original sender: ${name} <${address}>`; the constant
\* part is kept in one piece.
SenderInfo(name, address) ==
    <<"Original sender: ">> \o name \o <<" ", "<">> \o address \o <<">">>

\* Mutant: the mail addressed to the sender instead of the recipient
mailOptionsToSender(recipient, emailData) ==
    [from |-> Mailbox(emailData.senderName, recipient),
     to |-> emailData.senderEmail,
     subject |-> emailData.subject,
     text |-> filterMessage(emailData.message),
     replyTo |-> Mailbox(emailData.senderName, emailData.senderEmail),
     headers |-> [XOriginalSender |-> emailData.senderEmail,
                  XSenderInfo |-> SenderInfo(emailData.senderName,
                                             emailData.senderEmail)]]

\* Mutant: the mail is sent in the name and from the address of the sender
mailOptionsFromSender(recipient, emailData) ==
    [from |-> Mailbox(emailData.senderName, emailData.senderEmail),
     to |-> recipient,
     subject |-> emailData.subject,
     text |-> filterMessage(emailData.message),
     replyTo |-> Mailbox(emailData.senderName, emailData.senderEmail),
     headers |-> [XOriginalSender |-> emailData.senderEmail,
                  XSenderInfo |-> SenderInfo(emailData.senderName,
                                             emailData.senderEmail)]]

\* mailOptions of sendEmail.  process.env.USER_EMAIL is the address createApp
\* also passes as recipientEmail (server.ts, line 42).
mailOptions(recipient, emailData) ==
    [from |-> Mailbox(emailData.senderName, recipient),
     to |-> recipient,
     subject |-> emailData.subject,
     text |-> filterMessage(emailData.message),
     replyTo |-> Mailbox(emailData.senderName, emailData.senderEmail),
     headers |-> [XOriginalSender |-> emailData.senderEmail,
                  XSenderInfo |-> SenderInfo(emailData.senderName,
                                             emailData.senderEmail)]]

\* Mutant: a catch block that handles validation errors and rethrows the rest
CaughtRethrow(error) ==
    [success |-> FALSE,
     messageId |-> "",
     error |-> IF error.isError THEN error.message ELSE Text("Unknown error occurred"),
     code |-> error.code,
     threw |-> error.name # "EmailValidationError"]

\* The catch block of sendEmail: the EmailResponse for a thrown value.
Caught(error) ==
    [success |-> FALSE,
     messageId |-> "",
     error |-> IF error.isError THEN error.message ELSE Text("Unknown error occurred"),
     code |-> error.code,
     threw |-> FALSE]

\* The EmailResponse of a send the transport accepted.
Sent(info) ==
    [success |-> TRUE, messageId |-> info.messageId, error |-> Text(""),
     code |-> JsNum(200), threw |-> FALSE]

\* sendEmail: the state after it, the EmailResponse it resolves to, the value
\* its catch block caught and the mailOptions it handed to
\* transporter.sendMail.  outcome is what sendMail
\* does with them: it resolves to an info or rejects with a value.
sendEmail(s, recipient, emailData, outcome) ==
    LET v == validateEmailData(s, recipient, emailData)
    IN  IF v.error.thrown
        THEN [s |-> v.s, result |-> Caught(v.error), caught |-> v.error,
              sent |-> <<>>]
        ELSE [s |-> syncData(v.s),
              result |-> IF outcome.thrown THEN Caught(outcome) ELSE Sent(outcome),
              caught |-> IF outcome.thrown THEN outcome ELSE NoError,
              sent |-> <<mailOptions(recipient, emailData)>>]

blockEmail(s, email) == [s |-> blockAddress(s, email), result |-> TRUE]

unblockEmail(s, email) == [s |-> unblockAddress(s, email), result |-> TRUE]

(***************************************************************************)
(* POST /api/send-email (server.ts)                                        *)
(***************************************************************************)
\* res.status(code): express accepts an integer from 100 to 999 and throws
\* for anything else.
ValidStatus(code) == code.t = "number" /\ code.n >= 100 /\ code.n <= 999

\* Mutant: every failure answered with 500
HttpStatusAlways500(result) == IF result.success /\ ~result.threw THEN 200 ELSE 500

\* The status the handler answers with for an EmailResponse.
HttpStatus(result) ==
    IF result.threw THEN 500
    ELSE IF result.success THEN 200
    ELSE IF result.code.t = "undefined" THEN 503
    ELSE IF ValidStatus(result.code) THEN result.code.n
    ELSE 500

(***************************************************************************)
(* Inputs                                                                  *)
(***************************************************************************)
Other == <<"a","@","b",".","c">>
OtherPadded == <<" ","A","@","B",".","c"," ">>
User1Upper == <<"U","S","E","R","1","@","d","o","m","a","i","n",".","c","o","m">>
User1Padded == <<" ">> \o User1 \o <<"\t">>
NoAt == <<"a","b",".","c">>

Bob == <<"B","o","b">>
Hi == <<"H","i">>
Hello == <<"H","e","l","l","o">>

SenderNames == {Undefined, <<" "," ">>, Bob}
SenderEmails == {Undefined, <<" ">>, NoAt, User1, User1Upper, User1Padded, Other}
Subjects == {Undefined, <<"\t">>, Hi}
Messages == {Undefined, <<" ","\n">>, Hello,
             <<"<","b",">","H","i","<","/","b",">">>}

\* The requests: no body at all; every sender with one other field varied;
\* and, from the blocked sender User1, every combination of the other fields.
Requests ==
    {NoBody}
    \cup [body : {TRUE}, senderName : SenderNames, senderEmail : SenderEmails,
          subject : {Hi}, message : {Hello}]
    \cup [body : {TRUE}, senderName : {Bob}, senderEmail : SenderEmails,
          subject : Subjects, message : {Hello}]
    \cup [body : {TRUE}, senderName : {Bob}, senderEmail : SenderEmails,
          subject : {Hi}, message : Messages]
    \cup [body : {TRUE}, senderName : SenderNames, senderEmail : {User1},
          subject : Subjects, message : Messages]

\* The recipient the service is constructed with (USER_EMAIL): an address,
\* unset, blank, or not an address.
Recipients == {<<"m","e","@","x",".","y">>, Undefined, <<" ">>, <<"m","e","@","x">>}

\* What transporter.sendMail does: it resolves to an info with a messageId, or
\* rejects with an Error without code, with a string code (nodemailer's
\* 'EAUTH'), with a numeric code, or with a value that is no Error.
Resolved == [thrown |-> FALSE, isError |-> FALSE, name |-> "",
             message |-> Text(""), code |-> JsUndef,
             messageId |-> "<1@test.example.com>"]
Rejected(isError, code) ==
    [thrown |-> TRUE, isError |-> isError, name |-> "Error",
     message |-> Text("Email sending failed"), code |-> code, messageId |-> ""]
Outcomes ==
    {Resolved, Rejected(TRUE, JsUndef), Rejected(TRUE, JsStr("EAUTH")),
     Rejected(TRUE, JsNum(550)), Rejected(FALSE, JsUndef)}

\* The addresses blockEmail and unblockEmail are called with.
BlockArgs == {Other, OtherPadded, User1}

(***************************************************************************)
(* EmailService: construction, verification, status and close              *)
(* (eMailService.ts, eMailConfig.ts) and GET /api/service-status           *)
(***************************************************************************)
\* getEmailConfig: the host of the provider, or thrown when the switch falls
\* to its default case (`Unsupported email provider`).
getEmailConfig(provider) ==
    IF provider = "gmail" THEN [thrown |-> FALSE, host |-> "smtp.gmail.com"]
    ELSE IF provider = "gmx" THEN [thrown |-> FALSE, host |-> "mail.gmx.net"]
    ELSE [thrown |-> TRUE, host |-> ""]

\* The process and its EmailService instance: the phase of the instance
\* ("none", "failed" when the constructor threw, "constructed"), whether
\* createTransport was called, the state of the verification the constructor
\* started, whether a promise was rejected with nobody handling it, whether
\* the process still runs, and whether the transporter was closed.
NoService ==
    [phase |-> "none", provider |-> "", host |-> "", transporter |-> FALSE,
     verify |-> "none", unhandled |-> FALSE, alive |-> TRUE, closed |-> FALSE]

\* new EmailService(provider, recipientEmail): getEmailConfig, then
\* createTransport, then verifyConnection() is started and not awaited.
EmailService(provider) ==
    LET config == getEmailConfig(provider)
    IN  IF config.thrown
        THEN [NoService EXCEPT !.phase = "failed", !.provider = provider]
        ELSE [NoService EXCEPT !.phase = "constructed", !.provider = provider,
                               !.host = config.host, !.transporter = TRUE,
                               !.verify = "pending"]

\* verifyConnection once transporter.verify() has settled.  Its catch logs
\* and throws a new Error: the promise the constructor dropped is rejected
\* with no handler, and node (22, the Dockerfile's) ends the process on an
\* unhandled rejection.
verifyConnection(v, isVerified) ==
    IF isVerified THEN [v EXCEPT !.verify = "ok"]
    ELSE [v EXCEPT !.verify = "failed", !.unhandled = TRUE, !.alive = FALSE]

\* The service of Spec: constructed for gmail, verification succeeded.
Ready == verifyConnection(EmailService("gmail"), TRUE)

\* Mutant: a getStatus that reports the verification the constructor made
getStatusCached(v, isVerified) ==
    [provider |-> v.provider, connected |-> v.verify = "ok", threw |-> FALSE]

\* getStatus: awaits transporter.verify() inside a try
getStatus(v, isVerified) ==
    [provider |-> v.provider, connected |-> isVerified, threw |-> FALSE]

\* GET /api/service-status
ServiceStatus(status) ==
    IF status.threw
    THEN [code |-> 500, status |-> "", providers |-> status]
    ELSE [code |-> IF status.connected THEN 200 ELSE 503,
          status |-> IF status.connected THEN "online" ELSE "offline",
          providers |-> status]

\* Mutant: a close without the try
closeUnguarded(v, closeThrows) ==
    [s |-> IF closeThrows THEN v ELSE [v EXCEPT !.closed = TRUE],
     result |-> TRUE, threw |-> closeThrows]

\* close: transporter.close() inside a try; closeThrows is whether it threw
close(v, closeThrows) ==
    [s |-> IF closeThrows THEN v ELSE [v EXCEPT !.closed = TRUE],
     result |-> ~closeThrows, threw |-> FALSE]

\* The provider names the service is constructed with (SMTP_PROVIDER).
Providers == {"gmail", "gmx", "outlook", "yahoo"}

(***************************************************************************)
(* Calls in flight: a caller that called blockEmail or unblockEmail and    *)
(* awaits the promise it got.                                              *)
(***************************************************************************)
NumTasks == 2
Tasks == 1..NumTasks

IdleTask == [pc |-> "idle", op |-> "none", email |-> <<>>, result |-> FALSE]
NoTasks == [t \in Tasks |-> IdleTask]

(***************************************************************************)
(* State machine                                                           *)
(***************************************************************************)
\* new BlacklistManager() and new EmailBlocker() over the file found.
construct(found) ==
    RefreshMirror(loadData([file |-> found, backup |-> AbsentFile,
                            blackList |-> <<>>, blockedEmails |-> <<>>]))

State == [file |-> file, backup |-> backup, blackList |-> blackList,
          blockedEmails |-> blockedEmails]

Becomes(s) ==
    /\ file' = s.file
    /\ backup' = s.backup
    /\ blackList' = s.blackList
    /\ blockedEmails' = s.blockedEmails

\* The last call: what it was given, what it returned, what it handed to the
\* transport, the status the handler answered with, and the file before it.
NoCall == [op |-> "none", emailData |-> NoBody, email |-> <<>>, outcome |-> NoError,
           result |-> Sent(NoError), caught |-> NoError, http |-> 0, sent |-> <<>>,
           pre |-> AbsentFile]

\* The hit counters of the three MemoryStore instances for the one client the
\* model follows, and the mode createApp() reads from NODE_ENV.
NoHits == [NODE_ENV |-> "production", globalStore |-> 0, emailStore |-> 0,
           devEmailStore |-> 0]

Init ==
    /\ file = construct(AbsentFile).file
    /\ backup = construct(AbsentFile).backup
    /\ blackList = construct(AbsentFile).blackList
    /\ blockedEmails = construct(AbsentFile).blockedEmails
    /\ recipientEmail \in Recipients
    /\ last = NoCall
    /\ svc = Ready
    /\ tasks = NoTasks
    /\ rate = NoHits

\* The number of entries the file holds (the seed, when it is absent).
Stored(f) == IF f.st = "absent" THEN Len(initialContent) ELSE Len(f.data)

\* POST /api/send-email: the handler awaits emailService.sendEmail(req.body)
\* and answers with the status of its result.
\* The transport only acts on a request that sendEmail hands to it.
OutcomesFor(emailData) ==
    IF validateEmailData(State, recipientEmail, emailData).error.thrown
    THEN {NoError}
    ELSE Outcomes

SendEmail ==
    \E emailData \in Requests :
        \E outcome \in OutcomesFor(emailData) :
            \E r \in {sendEmail(State, recipientEmail, emailData, outcome)} :
                /\ Becomes(r.s)
                /\ last' = [op |-> "sendEmail", emailData |-> emailData,
                            email |-> <<>>, outcome |-> outcome,
                            result |-> r.result, caught |-> r.caught,
                            http |-> HttpStatus(r.result),
                            sent |-> r.sent, pre |-> file]
                /\ UNCHANGED <<recipientEmail, rate, svc, tasks>>

BlockEmail ==
    \E email \in BlockArgs :
        LET r == blockEmail(State, email)
        IN  /\ Stored(file) < MaxEntries
            /\ Becomes(r.s)
            /\ last' = [NoCall EXCEPT !.op = "blockEmail", !.email = email,
                                      !.pre = file]
            /\ UNCHANGED <<recipientEmail, rate, svc, tasks>>

UnblockEmail ==
    \E email \in BlockArgs :
        LET r == unblockEmail(State, email)
        IN  /\ Becomes(r.s)
            /\ last' = [NoCall EXCEPT !.op = "unblockEmail", !.email = email,
                                      !.pre = file]
            /\ UNCHANGED <<recipientEmail, rate, svc, tasks>>

Next == SendEmail \/ BlockEmail \/ UnblockEmail

Spec == Init /\ [][Next]_vars

(***************************************************************************)
(* StoreSpec: the BlacklistManager alone.  Its public methods are called   *)
(* in any order, and between two calls the file may be edited, replaced    *)
(* or deleted from outside the process.                                    *)
(***************************************************************************)
Entry(email) == [email |-> email, blockedAt |-> formatDate, reason |-> "Spam"]

\* What the file may hold when the process finds it: nothing (absent), text
\* that does not parse, an empty list, the seed, an entry typed by hand with
\* capitals, the same address twice.
Snapshots ==
    {AbsentFile, CorruptFile, FileOf(<<>>), FileOf(initialContent),
     FileOf(<<Entry(User1Upper)>>), FileOf(<<Entry(Other), Entry(Other)>>)}

\* The addresses the store's methods are called with.
StoreArgs == {Other, OtherPadded, User1, User1Upper, User1Padded}

\* clearList
clearList(s) == saveData([s EXCEPT !.blackList = <<>>])

\* new BlacklistManager() over the file found: blackList = [], then loadData
BlacklistManager(found) ==
    loadData([file |-> found, backup |-> AbsentFile,
              blackList |-> <<>>, blockedEmails |-> <<>>])

\* A call of a store method: what it was given, the boolean it returned, the
\* list it returned, whether it threw, and the store before the call.
StoreCall(op, email, result, returned) ==
    [op |-> op, email |-> email, result |-> result, returned |-> returned,
     threw |-> FALSE, pre |-> State]

StoreInit ==
    /\ \E found \in Snapshots :
        /\ file = BlacklistManager(found).file
        /\ backup = BlacklistManager(found).backup
        /\ blackList = BlacklistManager(found).blackList
        /\ last = [op |-> "new", email |-> <<>>, result |-> FALSE,
                   returned |-> <<>>, threw |-> FALSE,
                   pre |-> [file |-> found, backup |-> AbsentFile,
                            blackList |-> <<>>, blockedEmails |-> <<>>]]
    /\ blockedEmails = <<>>
    /\ recipientEmail = Undefined
    /\ svc = NoService
    /\ tasks = NoTasks
    /\ rate = NoHits

StoreFrame == UNCHANGED <<recipientEmail, rate, svc, tasks>>

AddMailToList ==
    \E email \in StoreArgs :
        /\ Stored(file) < MaxEntries
        /\ Len(blackList) < MaxEntries
        /\ Becomes(addMailToList(State, email, "Spam"))
        /\ last' = StoreCall("addMailToList", email, FALSE, <<>>)
        /\ StoreFrame

RemoveMailFromList ==
    \E email \in StoreArgs :
        LET r == removeMailFromList(State, email)
        IN  /\ Becomes(r.s)
            /\ last' = StoreCall("removeMailFromList", email, r.wasRemoved, <<>>)
            /\ StoreFrame

IsBlockedMail ==
    \E email \in StoreArgs :
        LET r == isBlockedMail(State, email)
        IN  /\ Becomes(r.s)
            /\ last' = StoreCall("isBlockedMail", email, r.result, <<>>)
            /\ StoreFrame

GetBlacklist ==
    LET g == getBlacklist(State)
    IN  /\ Becomes(g)
        /\ last' = StoreCall("getBlacklist", <<>>, FALSE, g.blackList)
        /\ StoreFrame

ClearList ==
    /\ Becomes(clearList(State))
    /\ last' = StoreCall("clearList", <<>>, FALSE, <<>>)
    /\ StoreFrame

\* The file is edited, replaced or deleted by something else than the process.
ExternalEdit ==
    \E found \in Snapshots :
        /\ file' = found
        /\ last' = StoreCall("edit", <<>>, FALSE, <<>>)
        /\ UNCHANGED <<backup, blackList, blockedEmails>>
        /\ StoreFrame

StoreNext ==
    \/ AddMailToList
    \/ RemoveMailFromList
    \/ IsBlockedMail
    \/ GetBlacklist
    \/ ClearList
    \/ ExternalEdit

StoreSpec == StoreInit /\ [][StoreNext]_vars

(***************************************************************************)
(* RaceSpec: callers overlap.  A call of blockEmail or unblockEmail runs   *)
(* the whole body of the async method at once -- it holds no await, and    *)
(* the store reads and writes with readFileSync and writeFileSync -- and   *)
(* returns a settled promise; the caller goes on in a later turn of the    *)
(* event loop, and other callers may call in between.                      *)
(***************************************************************************)
\* The constructed service, as in Init; the recipient plays no part here.
RaceInit ==
    /\ file = construct(AbsentFile).file
    /\ backup = construct(AbsentFile).backup
    /\ blackList = construct(AbsentFile).blackList
    /\ blockedEmails = construct(AbsentFile).blockedEmails
    /\ recipientEmail = Undefined
    /\ last = NoCall
    /\ svc = Ready
    /\ tasks = NoTasks
    /\ rate = NoHits

Call(t) ==
    /\ tasks[t].pc = "idle"
    /\ \E op \in {"blockEmail", "unblockEmail"}, email \in BlockArgs :
        \E r \in {IF op = "blockEmail" THEN blockEmail(State, email)
                                       ELSE unblockEmail(State, email)} :
            /\ op = "blockEmail" => Stored(file) < MaxEntries
            /\ Becomes(r.s)
            /\ tasks' = [tasks EXCEPT ![t] = [pc |-> "settled", op |-> op,
                                              email |-> email, result |-> r.result]]
            /\ last' = [NoCall EXCEPT !.op = op, !.email = email, !.pre = file]
            /\ UNCHANGED <<recipientEmail, rate, svc>>

\* The caller's await goes on with the value of the promise.
Resume(t) ==
    /\ tasks[t].pc = "settled"
    /\ tasks' = [tasks EXCEPT ![t] = IdleTask]
    /\ UNCHANGED <<file, backup, blackList, blockedEmails, recipientEmail, rate, last, svc>>

RaceNext == \E t \in Tasks : Call(t) \/ Resume(t)

RaceSpec == RaceInit /\ [][RaceNext]_vars

(***************************************************************************)
(* LifeSpec: the process constructs the service (server.ts, lines 169-172), *)
(* the verification the constructor started settles, and the instance is   *)
(* asked to send, to report its status and to close.                       *)
(***************************************************************************)
\* A request that passes validation, one with a malformed sender and one
\* from a blocked sender.
LifeRequests ==
    {[body |-> TRUE, senderName |-> Bob, senderEmail |-> Other,
      subject |-> Hi, message |-> Hello],
     [body |-> TRUE, senderName |-> Bob, senderEmail |-> NoAt,
      subject |-> Hi, message |-> Hello],
     [body |-> TRUE, senderName |-> Bob, senderEmail |-> User1,
      subject |-> Hi, message |-> Hello]}

\* A call of the service's lifecycle: the provider given, what the transport
\* did (verify resolved, close threw), what the call returned, the answer of
\* the status route, whether the call threw, and the service before it.
LifeCall(op) ==
    [op |-> op, provider |-> "", isVerified |-> FALSE, closeThrows |-> FALSE,
     emailData |-> NoBody, outcome |-> NoError, result |-> Sent(NoError),
     sent |-> <<>>, status |-> getStatus(NoService, FALSE),
     answer |-> ServiceStatus(getStatus(NoService, FALSE)),
     closed |-> FALSE, threw |-> FALSE, pre |-> svc]

LifeInit ==
    /\ file = AbsentFile
    /\ backup = AbsentFile
    /\ blackList = <<>>
    /\ blockedEmails = <<>>
    /\ recipientEmail = <<"m","e","@","x",".","y">>
    /\ svc = NoService
    /\ last = LifeCall("none")
    /\ tasks = NoTasks
    /\ rate = NoHits

\* The instance exists and the process runs.
Usable == svc.phase = "constructed" /\ svc.alive

\* The process starts: new EmailService(SMTP_PROVIDER, USER_EMAIL).  The field
\* initializer constructs the EmailBlocker before the constructor body runs.
Construct ==
    \E provider \in Providers :
        /\ svc.phase # "constructed" \/ ~svc.alive
        /\ Becomes(construct(file))
        /\ svc' = EmailService(provider)
        /\ last' = [LifeCall("new") EXCEPT !.provider = provider,
                       !.threw = getEmailConfig(provider).thrown]
        /\ UNCHANGED <<recipientEmail, rate, tasks>>

\* transporter.verify() of the constructor's verifyConnection settles.
VerifySettles ==
    \E isVerified \in BOOLEAN :
        /\ Usable
        /\ svc.verify = "pending"
        /\ svc' = verifyConnection(svc, isVerified)
        /\ last' = [LifeCall("verifyConnection") EXCEPT !.isVerified = isVerified]
        /\ UNCHANGED <<file, backup, blackList, blockedEmails, recipientEmail, rate, tasks>>

LifeSendEmail ==
    \E emailData \in LifeRequests :
        \E outcome \in OutcomesFor(emailData) :
            \E r \in {sendEmail(State, recipientEmail, emailData, outcome)} :
                /\ Usable
                /\ Becomes(r.s)
                /\ last' = [LifeCall("sendEmail") EXCEPT !.emailData = emailData,
                               !.outcome = outcome, !.result = r.result,
                               !.sent = r.sent, !.threw = r.result.threw]
                /\ UNCHANGED <<recipientEmail, rate, svc, tasks>>

\* GET /api/service-status
GetStatus ==
    \E isVerified \in BOOLEAN :
        /\ Usable
        /\ last' = [LifeCall("getStatus") EXCEPT !.isVerified = isVerified,
                       !.status = getStatus(svc, isVerified),
                       !.answer = ServiceStatus(getStatus(svc, isVerified)),
                       !.threw = getStatus(svc, isVerified).threw]
        /\ UNCHANGED <<file, backup, blackList, blockedEmails, recipientEmail, rate,
                       svc, tasks>>

Close ==
    \E closeThrows \in BOOLEAN :
        /\ Usable
        /\ svc' = close(svc, closeThrows).s
        /\ last' = [LifeCall("close") EXCEPT !.closeThrows = closeThrows,
                       !.closed = close(svc, closeThrows).result,
                       !.threw = close(svc, closeThrows).threw]
        /\ UNCHANGED <<file, backup, blackList, blockedEmails, recipientEmail, rate, tasks>>

LifeNext ==
    \/ Construct
    \/ VerifySettles
    \/ LifeSendEmail
    \/ GetStatus
    \/ Close

LifeSpec == LifeInit /\ [][LifeNext]_vars

(***************************************************************************)
(* Vocabulary of the properties                                            *)
(***************************************************************************)
IsSend == last.op = "sendEmail"
Req == last.emailData
Res == last.result

\* The address pattern, read off the specification: no white space, exactly
\* one @ that is not first, and after it a dot that is neither next to the @
\* nor last.
WellFormed(s) ==
    LET ats == {i \in 1..Len(s) : s[i] = "@"}
    IN  /\ Cardinality(ats) = 1
        /\ \A i \in 1..Len(s) : s[i] \notin WhiteSpace
        /\ \A a \in ats : a > 1 /\ \E j \in (a + 2)..(Len(s) - 1) : s[j] = "."

RequestFields == {"senderName", "senderEmail", "subject", "message"}

\* The fields of a request that are absent or blank after trimming.
MissingFields(req) ==
    {f \in RequestFields : req[f] = Undefined \/ trim(req[f]) = <<>>}

RequiredMessage ==
    [senderName |-> "Sender name is required",
     senderEmail |-> "Sender email is required",
     subject |-> "Subject is required",
     message |-> "Message is required"]

\* The address is on the blocklist the file f holds: it equals a stored
\* address after trimming and ignoring case.
InPersisted(f, address) ==
    /\ f.st = "ok"
    /\ address # Undefined
    /\ \E i \in 1..Len(f.data) :
        toLowerCase(f.data[i].email) = toLowerCase(trim(address))

\* The request passes the seven checks that precede the block check.
PassesEarlierChecks ==
    /\ Req.body
    /\ MissingFields(Req) = {}
    /\ recipientEmail # Undefined
    /\ WellFormed(Req.senderEmail)
    /\ WellFormed(recipientEmail)

\* The error message carries the address.
Names(message, address) == address # <<>> /\ message.arg = address

(***************************************************************************)
(* Properties                                                              *)
(***************************************************************************)
\* C1: a request with four non-blank fields, well-formed sender and
\* recipient addresses and a sender that is not on the persisted blocklist,
\* whose send the transport accepts, gets success=true with the transport's
\* non-empty messageId and HTTP 200, and exactly one send is made for it,
\* to the configured recipient and with the request's subject.
C1_ValidRequestIsRelayed ==
    (/\ IsSend
     /\ PassesEarlierChecks
     /\ ~InPersisted(last.pre, Req.senderEmail)
     /\ ~last.outcome.thrown)
    => /\ Res.success
       /\ ~Res.threw
       /\ Res.messageId = "<1@test.example.com>"
       /\ last.http = 200
       /\ Len(last.sent) = 1
       /\ last.sent[1].to = recipientEmail
       /\ last.sent[1].subject = Req.subject

C1_Witness ==
    /\ IsSend
    /\ PassesEarlierChecks
    /\ ~InPersisted(last.pre, Req.senderEmail)
    /\ last.outcome = Resolved
    /\ Len(last.sent) = 1
    /\ Res.success

\* C2 (the claim, for a service whose recipient is well-formed): a request in
\* which one of senderName, senderEmail, subject, message is absent or blank is
\* answered with success=false, an error message naming a missing field and
\* HTTP 400, and no send is made for it.
C2_MissingFieldAnswers400 ==
    (/\ IsSend
     /\ recipientEmail # Undefined /\ WellFormed(recipientEmail)
     /\ MissingFields(Req) # {})
    => /\ ~Res.success
       /\ last.sent = <<>>
       /\ last.http = 400
       /\ \E f \in MissingFields(Req) : Res.error = Text(RequiredMessage[f])

\* C3: when all fields and the recipient are present and the sender address
\* or the recipient address does not match the pattern, the request is
\* answered with success=false and a format error (the sender's when the
\* sender is malformed), and no send is made for it.
C3_MalformedAddressRejected ==
    (/\ IsSend
     /\ Req.body
     /\ MissingFields(Req) = {}
     /\ recipientEmail # Undefined /\ trim(recipientEmail) # <<>>
     /\ ~(WellFormed(Req.senderEmail) /\ WellFormed(recipientEmail)))
    => /\ ~Res.success
       /\ last.sent = <<>>
       /\ Res.error = IF ~WellFormed(Req.senderEmail)
                      THEN Text("Invalid sender email format")
                      ELSE Text("Invalid recipient email format")

C3_Witness ==
    /\ IsSend
    /\ Req.body
    /\ MissingFields(Req) = {}
    /\ WellFormed(Req.senderEmail)
    /\ recipientEmail = <<"m","e","@","x">>
    /\ Res.error = Text("Invalid recipient email format")

\* C4 (the claim as stated, for requests whose other fields are present and
\* whose recipient is well-formed): a sender that equals a persisted blocked
\* address after trimming and ignoring case is answered with success=false
\* and an error message containing the address, and no send is made.
C4_BlockedSenderNamed ==
    (/\ IsSend
     /\ Req.body
     /\ MissingFields(Req) = {}
     /\ recipientEmail # Undefined /\ WellFormed(recipientEmail)
     /\ InPersisted(last.pre, Req.senderEmail))
    => /\ ~Res.success
       /\ last.sent = <<>>
       /\ \/ Names(Res.error, Req.senderEmail)
          \/ Names(Res.error, trim(Req.senderEmail))
          \/ Names(Res.error, toLowerCase(trim(Req.senderEmail)))

\* C4 (amended): a sender that equals a persisted blocked address after
\* trimming and ignoring case is answered with success=false and no send is
\* made; the error message contains the sender address, with HTTP 403, when
\* the request passes the seven earlier checks, and is the message of one of
\* those checks otherwise (a sender with surrounding white space fails the
\* format check).
C4_BlockedSenderNeverRelayed ==
    (/\ IsSend
     /\ Req.body
     /\ InPersisted(last.pre, Req.senderEmail))
    => /\ ~Res.success
       /\ last.sent = <<>>
       /\ IF PassesEarlierChecks
          THEN Names(Res.error, Req.senderEmail) /\ last.http = 403
          ELSE Res.error.arg = <<>> /\ last.http = 400

C4_Witness ==
    /\ IsSend
    /\ PassesEarlierChecks
    /\ Req.senderEmail = User1Upper
    /\ InPersisted(last.pre, Req.senderEmail)
    /\ Names(Res.error, User1Upper)

\* C5: a validation failure classified MissingData is answered with HTTP
\* 400, and one classified BlockedSender with HTTP 403, success=false and an
\* error message that contains the sender address.
C5_ValidationFailureStatus ==
    (IsSend /\ last.caught.name = "EmailValidationError")
    => /\ ~Res.success
       /\ last.caught.code \in {JsNum(MissingData), JsNum(BlockedSender)}
       /\ last.caught.code = JsNum(MissingData) => last.http = 400
       /\ last.caught.code = JsNum(BlockedSender)
            => last.http = 403 /\ Names(Res.error, Req.senderEmail)

C5_Witness ==
    /\ IsSend
    /\ last.caught.name = "EmailValidationError"
    /\ last.caught.code = JsNum(BlockedSender)
    /\ last.http = 403

\* The eight checks in the order of the specification: whether each fails for
\* the last request, with the classification and message of its failure.
CheckOrder ==
    << [fails |-> IsBlank(Req.senderName), code |-> 400,
        error |-> Text("Sender name is required")],
       [fails |-> IsBlank(Req.senderEmail), code |-> 400,
        error |-> Text("Sender email is required")],
       [fails |-> IsBlank(recipientEmail), code |-> 400,
        error |-> Text("Recipient email is required")],
       [fails |-> IsBlank(Req.subject), code |-> 400,
        error |-> Text("Subject is required")],
       [fails |-> IsBlank(Req.message), code |-> 400,
        error |-> Text("Message is required")],
       [fails |-> ~WellFormed(Req.senderEmail), code |-> 400,
        error |-> Text("Invalid sender email format")],
       [fails |-> ~WellFormed(recipientEmail), code |-> 400,
        error |-> Text("Invalid recipient email format")],
       [fails |-> InPersisted(last.pre, Req.senderEmail), code |-> 403,
        error |-> Template("Adress '", Req.senderEmail, "' is blocked.")] >>

FailingChecks == {i \in 1..Len(CheckOrder) : CheckOrder[i].fails}

\* C6: the result of a request with a body is that of the first failing check
\* in the order sender name, sender address, recipient, subject, body, sender
\* format, recipient format, block status; so a blocked sender whose request
\* also has a missing field or a malformed address gets 400, never 403.
C6_FirstFailingCheckReported ==
    (IsSend /\ Req.body)
    => /\ FailingChecks = {} => last.sent # <<>>
       /\ \A i \in FailingChecks :
            (\A j \in FailingChecks : i <= j)
            => /\ ~Res.success
               /\ Res.error = CheckOrder[i].error
               /\ Res.code = JsNum(CheckOrder[i].code)
               /\ last.http = CheckOrder[i].code
       /\ (InPersisted(last.pre, Req.senderEmail) /\ ~PassesEarlierChecks)
            => last.http = 400

C6_Witness ==
    /\ IsSend
    /\ Req.body
    /\ InPersisted(last.pre, Req.senderEmail)
    /\ Req.senderEmail = User1
    /\ IsBlank(Req.subject)
    /\ IsBlank(Req.message)
    /\ Res.error = Text("Subject is required")
    /\ last.http = 400

\* C7 (the claim, for the errors it names: without a code or with a code that
\* is not a number): when a request passes validation and the transport send
\* fails, the result has success=false and an error message, and the handler
\* answers 503.
C7_TransportFailureAnswers503 ==
    (/\ IsSend
     /\ last.sent # <<>>
     /\ last.outcome.thrown
     /\ last.outcome.code.t # "number")
    => /\ ~Res.success
       /\ Res.error.pre # ""
       /\ last.http = 503

\* C8: sendEmail never throws: for every request, the absent body included,
\* and every transport outcome it resolves to a result with a boolean success
\* flag and, on failure, an error message.
C8_SendEmailAlwaysResolves ==
    IsSend
    => /\ ~Res.threw
       /\ Res.success \in BOOLEAN
       /\ ~Res.success => Res.error.pre # ""
       /\ Res.success => Res.messageId # ""

C8_Witness ==
    /\ IsSend
    /\ ~Req.body
    /\ ~Res.threw
    /\ ~Res.success

\* C9: the persisted blocklist never holds two entries with the same
\* normalized (trimmed, lower-cased) address.
C9_NoDuplicateEntries ==
    file.st = "ok"
    => \A i, j \in 1..Len(file.data) :
         i # j => toLowerCase(trim(file.data[i].email))
                    # toLowerCase(trim(file.data[j].email))

\* C10: after blockAddress and after unblockAddress, the mirror getBlockedList
\* returns is the list of the addresses in the persisted snapshot.
C10_MirrorFollowsMutation ==
    (last.op \in {"blockEmail", "unblockEmail"} /\ file.st = "ok")
    => getBlockedList(State) = Emails(file.data)

(***************************************************************************)
(* Properties of the store (StoreSpec)                                     *)
(***************************************************************************)
IsStoreCall(op) == last.op = op

\* An address without its leading and trailing white space.
Core(a) ==
    IF \A i \in 1..Len(a) : a[i] \in WhiteSpace THEN <<>>
    ELSE SubSeq(a,
                CHOOSE i \in 1..Len(a) :
                    a[i] \notin WhiteSpace /\ \A j \in 1..(i - 1) : a[j] \in WhiteSpace,
                CHOOSE i \in 1..Len(a) :
                    a[i] \notin WhiteSpace /\ \A j \in (i + 1)..Len(a) : a[j] \in WhiteSpace)

SameLetter(c, d) ==
    c = d \/ \E i \in 1..Len(UpperChars) : {c, d} = {UpperChars[i], LowerChars[i]}

\* Two addresses that differ at most in letter case and in leading or
\* trailing white space.
SameAddress(a, b) ==
    \E x \in {Core(a)}, y \in {Core(b)} :
        /\ Len(x) = Len(y)
        /\ \A i \in 1..Len(x) : SameLetter(x[i], y[i])

\* The addresses the properties ask the store about.
Probes == StoreArgs \cup {<<"A","@","b",".","C">>, <<"\t","a","@","b",".","c">>}

\* The list a load of the store s yields: the file's, the seed when there is
\* no file, and the list in memory when the file does not parse.
Effective(s) ==
    IF s.file.st = "absent" THEN initialContent
    ELSE IF s.file.st = "corrupt" THEN s.blackList
    ELSE s.file.data

Listed(list, address) ==
    \E i \in 1..Len(list) : SameAddress(list[i].email, address)

\* C11: right after addMailToList(e), isBlockedMail returns true for e and
\* for every address that differs from e only in letter case or in leading
\* or trailing white space.
C11_AddedIsBlocked ==
    IsStoreCall("addMailToList")
    => \A v \in Probes :
        SameAddress(v, last.email) => isBlockedMail(State, v).result

\* C11 happens: an address not listed before is added with capitals and
\* padding, and its plain lower-case form is then reported blocked.
C11_Witness ==
    /\ IsStoreCall("addMailToList")
    /\ last.email = OtherPadded
    /\ ~Listed(Effective(last.pre), Other)
    /\ isBlockedMail(State, Other).result
    /\ file.st = "ok" /\ Listed(file.data, Other)

\* C12: right after removeMailFromList(e) on a file that holds a list,
\* isBlockedMail(e) returns false, and the call returned true exactly when
\* the list lost an entry.
C12_RemovedIsNotBlocked ==
    (IsStoreCall("removeMailFromList") /\ last.pre.file.st = "ok")
    => /\ ~isBlockedMail(State, last.email).result
       /\ last.result <=> Len(Effective(State)) < Len(Effective(last.pre))

\* C13 as claimed: removeMailFromList of an address that is not listed
\* returns false, leaves the list as it was and writes neither the file nor
\* the backup.
C13_RemoveAbsentWritesNothing ==
    (IsStoreCall("removeMailFromList") /\ ~Listed(Effective(last.pre), last.email))
    => /\ ~last.result
       /\ Effective(State) = Effective(last.pre)
       /\ file = last.pre.file
       /\ backup = last.pre.backup

\* C13 as amended: removeMailFromList of an address that is not listed
\* returns false, leaves the list as it was and never writes the backup; the
\* file is left as it was, except that a file that does not exist is created
\* with the seed by the load that starts the call.
C13_RemoveAbsentKeepsSnapshot ==
    (IsStoreCall("removeMailFromList") /\ ~Listed(Effective(last.pre), last.email))
    => /\ ~last.result
       /\ Effective(State) = Effective(last.pre)
       /\ blackList = Effective(last.pre)
       /\ backup = last.pre.backup
       /\ \/ file = last.pre.file
          \/ last.pre.file.st = "absent" /\ file = FileOf(initialContent)

\* C13 happens: an address that is not listed is removed from a file that
\* holds entries and has a backup.
C13_Witness ==
    /\ IsStoreCall("removeMailFromList")
    /\ last.pre.file.st = "ok" /\ last.pre.file.data # <<>>
    /\ last.pre.backup.st = "ok"
    /\ ~Listed(last.pre.file.data, last.email)
    /\ ~last.result
    /\ file = last.pre.file

\* C14: a call of the store over a file that does not parse throws, and
\* leaves that file as it is.
C14_CorruptFilePropagates ==
    (last.op \in {"new", "getBlacklist", "isBlockedMail", "addMailToList",
                  "removeMailFromList"}
     /\ last.pre.file.st = "corrupt")
    => last.threw /\ file = last.pre.file

\* C15: a load that finds no file creates it with the two seed entries and
\* returns what the file then holds; a load that finds a file leaves it as
\* it is.
C15_LoadSeedsAbsentFileOnly ==
    /\ (last.op \in {"new", "getBlacklist"} /\ last.pre.file.st = "absent")
       => /\ file.st = "ok"
          /\ Len(file.data) = 2
          /\ file.data[1].email = User1
          /\ file.data[2].email = BlockedEmail
          /\ blackList = file.data
          /\ IsStoreCall("getBlacklist") => last.returned = file.data
    /\ (last.op \in {"new", "getBlacklist", "isBlockedMail"}
        /\ last.pre.file.st # "absent")
       => file = last.pre.file

\* C15 happens: getBlacklist is called after the file was deleted, while the
\* list in memory was not the seed.
C15_Witness ==
    /\ IsStoreCall("getBlacklist")
    /\ last.pre.file.st = "absent"
    /\ last.pre.blackList # initialContent
    /\ file = FileOf(initialContent)
    /\ last.returned = initialContent


(***************************************************************************)
(* Properties of overlapping calls (RaceSpec)                              *)
(***************************************************************************)
\* Two calls overlap: both have run and neither caller has gone on yet.
Overlapping(t, u) ==
    t # u /\ tasks[t].pc = "settled" /\ tasks[u].pc = "settled"

\* The call of u was the last one to run (and to save).
RanLast(u) == last.op = tasks[u].op /\ last.email = tasks[u].email

\* The file holds an entry for the address.
PersistedIn(f, address) == f.st = "ok" /\ Listed(f.data, address)
Persisted(address) == PersistedIn(file, address)

\* C16 as claimed: of two overlapping calls on different addresses, a
\* blockEmail and a call that ran after it, the last save wins and the entry
\* the blockEmail added is not in the file.
C16_OverlappingAddIsLost ==
    \A t, u \in Tasks :
        (/\ Overlapping(t, u)
         /\ tasks[t].op = "blockEmail"
         /\ ~SameAddress(tasks[t].email, tasks[u].email)
         /\ RanLast(u))
        => ~Persisted(tasks[t].email)

\* C16 as amended: a step takes an address out of the file only when it is
\* an unblockEmail of that address, and a step that is a blockEmail leaves
\* its address in the file: no call's save drops what another call added.
C16_NoAddIsLost ==
    [][/\ \A a \in BlockArgs \cup {User1, BlockedEmail} :
            (PersistedIn(file, a) /\ ~PersistedIn(file', a))
            => (last'.op = "unblockEmail" /\ SameAddress(last'.email, a))
       /\ (last' # last /\ last'.op = "blockEmail") => PersistedIn(file', last'.email)
      ]_vars

\* C16 happens: two calls overlap, each having added another address that
\* the file did not hold, and the file holds both.
C16_Witness ==
    \E t, u \in Tasks :
        /\ Overlapping(t, u)
        /\ tasks[t].op = "blockEmail" /\ tasks[u].op = "blockEmail"
        /\ SameAddress(tasks[t].email, Other)
        /\ tasks[u].email = User1
        /\ RanLast(u)
        /\ last.pre.st = "ok" /\ ~Listed(last.pre.data, User1)
        /\ Persisted(Other) /\ Persisted(User1)


(***************************************************************************)
(* Properties of the service's lifecycle (LifeSpec)                        *)
(***************************************************************************)
IsLifeCall(op) == last.op = op

\* The provider names of the type ProviderTypes.
ProviderTypes == {"gmail", "gmx", "outlook"}

\* C17: the constructor returns for every provider name of ProviderTypes,
\* and throws, with no transport created, for every other name.
C17_ProviderEnumConstructs ==
    IsLifeCall("new")
    => /\ last.provider \in ProviderTypes => (~last.threw /\ svc.phase = "constructed")
       /\ last.provider \notin ProviderTypes => (last.threw /\ ~svc.transporter)

\* C18: when the verification the constructor started fails, no promise is
\* left rejected without a handler, the process runs on and the instance
\* stays usable.
C18_VerifyFailureOnlyLogged ==
    svc.verify = "failed" => (~svc.unhandled /\ svc.alive /\ Usable)

\* C19: getStatus does not throw; it returns the provider and connected =
\* whether this call's verify succeeded, whatever earlier verifications
\* did; the route answers 200 'online' when connected and 503 'offline'
\* otherwise.
C19_StatusReflectsVerification ==
    IsLifeCall("getStatus")
    => /\ ~last.threw
       /\ last.status.provider = last.pre.provider
       /\ last.status.connected <=> last.isVerified
       /\ last.answer.providers = last.status
       /\ IF last.isVerified
          THEN last.answer.code = 200 /\ last.answer.status = "online"
          ELSE last.answer.code = 503 /\ last.answer.status = "offline"

\* C19 happens: the verification of the constructor succeeded, a later
\* getStatus finds the transport down and answers 503 'offline'.
C19_Witness ==
    /\ IsLifeCall("getStatus")
    /\ last.pre.verify = "ok"
    /\ ~last.isVerified
    /\ ~last.status.connected
    /\ last.answer.code = 503

\* C20: close does not throw; it returns true when transporter.close()
\* returned and false when it threw, on a first call and on any later one.
C20_CloseNeverThrows ==
    IsLifeCall("close")
    => /\ ~last.threw
       /\ last.closed <=> ~last.closeThrows
       /\ last.closed => svc.closed

\* C20 happens: close is called on an instance that was closed before, the
\* transport throws, and close returns false.
C20_Witness ==
    /\ IsLifeCall("close")
    /\ last.pre.closed
    /\ last.closeThrows
    /\ ~last.closed
    /\ ~last.threw

(***************************************************************************)
(* SanitizeSpec: one request with a message drawn from the strings over a  *)
(* small alphabet is handed to sendEmail of the constructed service.       *)
(***************************************************************************)
\* The longest message drawn.
MaxMsgLen == 5

MessageChars == {"<", ">", "a", " "}

\* The message of the integration test for XSS in the message text, with the
\* script and the style sheet shortened.
XssMessage ==
    <<"<","s","c","r","i","p","t",">","x","<","/","s","c","r","i","p","t",">",
      "H","a","r","m","l","e","s","s"," ","t","e","x","t",
      "<","s","t","y","l","e",">","y","<","/","s","t","y","l","e",">">>

SanitizeMessages ==
    {XssMessage} \cup UNION {[1..n -> MessageChars] : n \in 0..MaxMsgLen}

\* The request came in; sendEmail has not been called with it yet.
Received(emailData) == [NoCall EXCEPT !.op = "request", !.emailData = emailData]

SanitizeInit ==
    /\ \E found \in {AbsentFile} : \E s \in {construct(found)} :
        /\ file = s.file
        /\ backup = s.backup
        /\ blackList = s.blackList
        /\ blockedEmails = s.blockedEmails
    /\ recipientEmail = <<"m","e","@","x",".","y">>
    /\ \E message \in SanitizeMessages :
        last = Received([body |-> TRUE, senderName |-> Bob, senderEmail |-> Other,
                         subject |-> Hi, message |-> message])
    /\ svc = Ready
    /\ tasks = NoTasks
    /\ rate = NoHits

\* The handler of POST /api/send-email runs for the request received.
Relay ==
    /\ last.op = "request"
    /\ \E outcome \in OutcomesFor(last.emailData) \cap {NoError, Resolved, Rejected(TRUE, JsUndef)} :
        \E r \in {sendEmail(State, recipientEmail, last.emailData, outcome)} :
            /\ Becomes(r.s)
            /\ last' = [op |-> "sendEmail", emailData |-> last.emailData,
                        email |-> <<>>, outcome |-> outcome,
                        result |-> r.result, caught |-> r.caught,
                        http |-> HttpStatus(r.result),
                        sent |-> r.sent, pre |-> file]
            /\ UNCHANGED <<recipientEmail, rate, svc, tasks>>

SanitizeNext == Relay

SanitizeSpec == SanitizeInit /\ [][SanitizeNext]_vars

(***************************************************************************)
(* RateSpec: the routes of createApp behind their rate limiters            *)
(* (server.ts, rateLimiterConfig.ts).  The model follows one client.  A    *)
(* limiter of express-rate-limit counts the request in its store and hands *)
(* it on while the count is within the limit; the store forgets the count  *)
(* when the window of the client has passed.                               *)
(***************************************************************************)
GlobalLimit == 100
EMAIL_RATE_LIMIT == 25
EMAIL_WINDOW_MS == 30 * 60 * 1000
DevEmailLimit == 5

\* const limiterConfig = NODE_ENV === 'development' ? devEmailLimiter : emailLimiter
limiterConfig(env) ==
    IF env = "development"
    THEN [store |-> "devEmailStore", limit |-> DevEmailLimit]
    ELSE [store |-> "emailStore", limit |-> EMAIL_RATE_LIMIT]

\* The message option of globalLimiter, sent with status 429 by the default
\* handler of express-rate-limit.
GlobalMessage ==
    [success |-> FALSE,
     error |-> Text("Too many requests from this IP address. Please try again later."),
     code |-> JsUndef,
     retryAfter |-> JsStr("15 minutes")]

\* rateLimitHandler: msLeft is resetTime - Date.now();
\* Math.round(x) is the floor of x + 0.5.
rateLimitHandler(msLeft) ==
    LET rounded == (msLeft + 500) \div 1000
        retryAfterSec == IF rounded > 0 THEN rounded ELSE 0
    IN  [success |-> FALSE, error |-> Text("Rate limit exceeded"),
         code |-> JsNum(429), retryAfter |-> JsNum(retryAfterSec)]

\* What is left of the window when a request is turned away.
MsLeft == {-1500, 499, EMAIL_WINDOW_MS}

\* Mutant: the route handler is registered in front of its limiter
postSendEmailHandlerFirst(s, hits, recipient, emailData, outcome, msLeft) ==
    LET cfg == limiterConfig(hits.NODE_ENV)
        counted == [hits EXCEPT !.globalStore = @ + 1, ![cfg.store] = @ + 1]
        r == sendEmail(s, recipient, emailData, outcome)
    IN  IF counted.globalStore > GlobalLimit
        THEN [s |-> s, hits |-> [hits EXCEPT !.globalStore = @ + 1], http |-> 429,
              body |-> GlobalMessage, sent |-> <<>>]
        ELSE IF counted[cfg.store] > cfg.limit
        THEN [s |-> r.s, hits |-> counted, http |-> 429,
              body |-> rateLimitHandler(msLeft), sent |-> r.sent]
        ELSE [s |-> r.s, hits |-> counted, http |-> HttpStatus(r.result),
              body |-> r.result, sent |-> r.sent]

\* A POST /api/send-email through app.use(globalLimiter), the limiter of the
\* route and the route handler: the state and the counters after it, the
\* status and the body answered, and what the transport was handed.
postSendEmail(s, hits, recipient, emailData, outcome, msLeft) ==
    LET cfg == limiterConfig(hits.NODE_ENV)
        counted == [hits EXCEPT !.globalStore = @ + 1, ![cfg.store] = @ + 1]
    IN  IF counted.globalStore > GlobalLimit
        THEN [s |-> s, hits |-> [hits EXCEPT !.globalStore = @ + 1], http |-> 429,
              body |-> GlobalMessage, sent |-> <<>>]
        ELSE IF counted[cfg.store] > cfg.limit
        THEN [s |-> s, hits |-> counted, http |-> 429,
              body |-> rateLimitHandler(msLeft), sent |-> <<>>]
        ELSE LET r == sendEmail(s, recipient, emailData, outcome)
             IN  [s |-> r.s, hits |-> counted, http |-> HttpStatus(r.result),
                  body |-> r.result, sent |-> r.sent]

\* A GET /api/service-status of a verified service: only globalLimiter
\* stands in front of it.
getServiceStatus(hits) ==
    IF hits.globalStore + 1 > GlobalLimit
    THEN [hits |-> [hits EXCEPT !.globalStore = @ + 1], http |-> 429,
          body |-> GlobalMessage]
    ELSE [hits |-> [hits EXCEPT !.globalStore = @ + 1], http |-> 200,
          body |-> [service |-> "email-server", status |-> "online"]]

ValidRequest ==
    [body |-> TRUE, senderName |-> Bob, senderEmail |-> Other, subject |-> Hi,
     message |-> Hello]

RateRequests == {ValidRequest, [ValidRequest EXCEPT !.message = Undefined]}

RateCall(op) ==
    [op |-> op, emailData |-> NoBody, outcome |-> NoError, http |-> 0,
     body |-> Sent(NoError), sent |-> <<>>, pre |-> State, hits |-> rate]

RateInit ==
    /\ \E found \in {AbsentFile} : \E s \in {construct(found)} :
        /\ file = s.file
        /\ backup = s.backup
        /\ blackList = s.blackList
        /\ blockedEmails = s.blockedEmails
        /\ last = [op |-> "none", emailData |-> NoBody, outcome |-> NoError,
                   http |-> 0, body |-> Sent(NoError), sent |-> <<>>, pre |-> s,
                   hits |-> NoHits]
    /\ recipientEmail = <<"m","e","@","x",".","y">>
    /\ svc = Ready
    /\ tasks = NoTasks
    /\ \E env \in {"production", "development"} :
        rate = [NoHits EXCEPT !.NODE_ENV = env]

\* The client posts a request.  The counters stop one past their limits: a
\* later request in the same window is answered as that one was.  What is
\* left of the window only shows in the answer of rateLimitHandler, so it is
\* drawn for that answer alone.
PostSendEmail ==
    /\ rate.globalStore <= GlobalLimit
    /\ rate[limiterConfig(rate.NODE_ENV).store] <= limiterConfig(rate.NODE_ENV).limit
    /\ \E emailData \in RateRequests, msLeft \in MsLeft :
        \E outcome \in OutcomesFor(emailData) \cap {NoError, Resolved} :
            \E r \in {postSendEmail(State, rate, recipientEmail, emailData, outcome, msLeft)} :
                /\ r.http # 429 => msLeft = 499
                /\ r.body = GlobalMessage => msLeft = 499
                /\ Becomes(r.s)
                /\ rate' = r.hits
                /\ last' = [RateCall("postSendEmail") EXCEPT
                                !.emailData = emailData, !.outcome = outcome,
                                !.http = r.http, !.body = r.body, !.sent = r.sent]
                /\ UNCHANGED <<recipientEmail, svc, tasks>>

\* The client asks for the status.
GetServiceStatus ==
    /\ rate.globalStore <= GlobalLimit
    /\ \E r \in {getServiceStatus(rate)} :
        /\ rate' = r.hits
        /\ last' = [RateCall("getServiceStatus") EXCEPT !.http = r.http, !.body = r.body]
        /\ UNCHANGED <<file, backup, blackList, blockedEmails, recipientEmail, svc, tasks>>

\* The window of the client in one of the stores has passed.
WindowExpires ==
    \E store \in {"globalStore", "emailStore", "devEmailStore"} :
        /\ rate[store] > 0
        /\ rate' = [rate EXCEPT ![store] = 0]
        /\ last' = RateCall("windowExpires")
        /\ UNCHANGED <<file, backup, blackList, blockedEmails, recipientEmail, svc,
                       tasks>>

\* blackList.json is deleted while the service runs.
FileRemoved ==
    /\ file # AbsentFile
    /\ file' = AbsentFile
    /\ last' = RateCall("fileRemoved")
    /\ UNCHANGED <<backup, blackList, blockedEmails, recipientEmail, svc, tasks,
                   rate>>

RateNext ==
    \/ PostSendEmail
    \/ GetServiceStatus
    \/ WindowExpires
    \/ FileRemoved

RateSpec == RateInit /\ [][RateNext]_vars

(***************************************************************************)
(* FaultSpec: the store alone, as in StoreSpec, with a backup file that    *)
(* at times cannot be written.                                             *)
(***************************************************************************)
\* blackList_backup.json becomes unwritable.
BackupLocked ==
    /\ backup.st # "locked"
    /\ backup' = LockedFile
    /\ last' = StoreCall("lock", <<>>, FALSE, <<>>)
    /\ UNCHANGED <<file, blackList, blockedEmails>>
    /\ StoreFrame

\* The obstacle is cleared away, and the backup with it.
BackupUnlocked ==
    /\ backup.st = "locked"
    /\ backup' = AbsentFile
    /\ last' = StoreCall("unlock", <<>>, FALSE, <<>>)
    /\ UNCHANGED <<file, blackList, blockedEmails>>
    /\ StoreFrame

FaultNext ==
    \/ AddMailToList
    \/ RemoveMailFromList
    \/ IsBlockedMail
    \/ GetBlacklist
    \/ ClearList
    \/ BackupLocked
    \/ BackupUnlocked

FaultSpec == StoreInit /\ [][FaultNext]_vars

(***************************************************************************)
(* RelaySpec: the constructed service relays valid requests of several     *)
(* senders, one after the other.                                           *)
(***************************************************************************)
Eve == <<"E","v","e">>
Carol == <<"c","@","d",".","e">>

RelayRequests ==
    [body : {TRUE}, senderName : {Bob, Eve}, senderEmail : {Other, Carol},
     subject : {Hi, Hello, Bob}, message : {Hello, Hi, <<"<","b",">","H","i","<","/","b",">">>}]

RelayInit ==
    /\ \E found \in {AbsentFile} : \E s \in {construct(found)} :
        /\ file = s.file
        /\ backup = s.backup
        /\ blackList = s.blackList
        /\ blockedEmails = s.blockedEmails
    /\ recipientEmail \in {<<"m","e","@","x",".","y">>, <<"i","t","@","x",".","y">>}
    /\ last = NoCall
    /\ svc = Ready
    /\ tasks = NoTasks
    /\ rate = NoHits

RelayEmail ==
    \E emailData \in RelayRequests :
        \E outcome \in {Resolved, Rejected(TRUE, JsUndef)} :
            \E r \in {sendEmail(State, recipientEmail, emailData, outcome)} :
                /\ Becomes(r.s)
                /\ last' = [op |-> "sendEmail", emailData |-> emailData,
                            email |-> <<>>, outcome |-> outcome,
                            result |-> r.result, caught |-> r.caught,
                            http |-> HttpStatus(r.result),
                            sent |-> r.sent, pre |-> file]
                /\ UNCHANGED <<recipientEmail, rate, svc, tasks>>

RelayNext == RelayEmail

RelaySpec == RelayInit /\ [][RelayNext]_vars

(***************************************************************************)
(* EnvSpec: the constructed service in an environment that edits           *)
(* blackList.json behind its back and at times makes it unwritable.        *)
(***************************************************************************)
\* What an editor leaves in the file.
EnvEdits == {CorruptFile, FileOf(<<>>), FileOf(initialContent)}

\* Valid requests of a sender that is not in the seed and of one that is.
EnvRequests == {ValidRequest, [ValidRequest EXCEPT !.senderEmail = User1]}

EnvArgs == {Other, User1}

\* The last call: its argument or request, the boolean blockEmail or
\* unblockEmail resolved to, the response of sendEmail, what the transport
\* was handed, and the service before the call.
EnvCall(op) ==
    [op |-> op, email |-> <<>>, emailData |-> NoBody, returned |-> FALSE,
     result |-> Sent(NoError), sent |-> <<>>, pre |-> State]

EnvInit ==
    /\ \E found \in {AbsentFile} : \E s \in {construct(found)} :
        /\ file = s.file
        /\ backup = s.backup
        /\ blackList = s.blackList
        /\ blockedEmails = s.blockedEmails
        /\ last = [op |-> "new", email |-> <<>>, emailData |-> NoBody,
                   returned |-> FALSE, result |-> Sent(NoError), sent |-> <<>>,
                   pre |-> s]
    /\ recipientEmail = <<"m","e","@","x",".","y">>
    /\ svc = Ready
    /\ tasks = NoTasks
    /\ rate = NoHits

EnvFrame == UNCHANGED <<recipientEmail, rate, svc, tasks>>

EnvSendEmail ==
    \E emailData \in EnvRequests :
        \E r \in {sendEmail(State, recipientEmail, emailData, Resolved)} :
            /\ Becomes(r.s)
            /\ last' = [EnvCall("sendEmail") EXCEPT !.emailData = emailData,
                           !.result = r.result, !.sent = r.sent]
            /\ EnvFrame

EnvBlockEmail ==
    \E email \in EnvArgs :
        \E r \in {blockEmail(State, email)} :
            /\ Len(blackList) < MaxEntries
            /\ Becomes(r.s)
            /\ last' = [EnvCall("blockEmail") EXCEPT !.email = email,
                           !.returned = r.result]
            /\ EnvFrame

EnvUnblockEmail ==
    \E email \in EnvArgs :
        \E r \in {unblockEmail(State, email)} :
            /\ Becomes(r.s)
            /\ last' = [EnvCall("unblockEmail") EXCEPT !.email = email,
                           !.returned = r.result]
            /\ EnvFrame

\* The file is edited or replaced by something else than the process.
EnvEdit ==
    \E found \in EnvEdits :
        /\ file # found
        /\ file' = found
        /\ last' = EnvCall("edit")
        /\ UNCHANGED <<backup, blackList, blockedEmails>>
        /\ EnvFrame

\* The file loses its write permission.
FileReadOnly ==
    /\ file.st = "ok"
    /\ file' = ReadOnly(file)
    /\ last' = EnvCall("chmod")
    /\ UNCHANGED <<backup, blackList, blockedEmails>>
    /\ EnvFrame

\* The file gets its write permission back.
FileWritable ==
    /\ file.st = "readonly"
    /\ file' = FileOf(file.data)
    /\ last' = EnvCall("chmod")
    /\ UNCHANGED <<backup, blackList, blockedEmails>>
    /\ EnvFrame

EnvNext ==
    \/ EnvSendEmail
    \/ EnvBlockEmail
    \/ EnvUnblockEmail
    \/ EnvEdit
    \/ FileReadOnly
    \/ FileWritable

EnvSpec == EnvInit /\ [][EnvNext]_vars

(***************************************************************************)
(* The sanitizer                                                           *)
(***************************************************************************)
\* Position i of s lies inside a markup span that opened before it: a "<"
\* precedes it with no ">" in between, and a ">" closes the span at i or later.
InTag(s, i) ==
    \E j \in 1..(i - 1) :
        /\ s[j] = "<"
        /\ \A m \in (j + 1)..(i - 1) : s[m] # ">"
        /\ \E k \in i..Len(s) : s[k] = ">"

\* Position i of s opens a markup span.
OpensTag(s, i) ==
    /\ s[i] = "<"
    /\ ~InTag(s, i)
    /\ \E k \in (i + 1)..Len(s) : s[k] = ">"

\* s with mark put for every markup span and the text outside the spans kept.
Outside(s, mark) ==
    LET f[i \in 0..Len(s)] ==
            IF i = 0 THEN <<>>
            ELSE IF InTag(s, i) THEN f[i - 1]
            ELSE IF OpensTag(s, i) THEN f[i - 1] \o mark
            ELSE Append(f[i - 1], s[i])
    IN  f[Len(s)]

\* u occurs in t.
Contains(t, u) ==
    \E k \in 0..(Len(t) - Len(u)) : SubSeq(t, k + 1, k + Len(u)) = u

\* The runs of text of s outside its markup spans, as pairs of positions.
TextRuns(s) ==
    {p \in (1..Len(s)) \X (1..Len(s)) :
        /\ p[1] <= p[2]
        /\ \A i \in p[1]..p[2] : ~InTag(s, i) /\ ~OpensTag(s, i)
        /\ p[1] = 1 \/ InTag(s, p[1] - 1)
        /\ p[2] = Len(s) \/ OpensTag(s, p[2] + 1)}

\* The request came through validation and the transport was given a message.
Relayed == last.op = "sendEmail" /\ last.sent # <<>>

RelayedText == last.sent[1].text

\* C21 as stated: the text handed to the transport is the message with every
\* markup span deleted, then trimmed; nothing stands in for a deleted span.
C21_TagsDeleted ==
    Relayed => RelayedText = Core(Outside(Req.message, <<>>))

\* C21: the text handed to the transport is the message with every markup
\* span replaced by one "*", then trimmed; the characters outside the spans
\* are kept as they are and in their order.
C21_TagsReplacedByStar ==
    Relayed => RelayedText = Core(Outside(Req.message, <<"*">>))

\* A message with text before, inside and after a markup span was relayed.
C21_Witness ==
    /\ Relayed
    /\ Req.message = <<"a","<","a",">","a">>
    /\ RelayedText = <<"a","*","a">>

\* A run of text of the message stands in t: as it is when markup spans
\* enclose it, and up to the white space trimmed off the ends of the message
\* when it begins or ends the message.
RunKept(s, p, t) ==
    /\ Contains(t, Core(SubSeq(s, p[1], p[2])))
    /\ (p[1] > 1 /\ p[2] < Len(s)) => Contains(t, SubSeq(s, p[1], p[2]))

\* C22: for every message that passes validation the text handed to the
\* transport holds no "<" with a ">" after it, so no <script> and no <style>,
\* it still holds every run of text that stood outside the markup spans,
\* and the request is answered with 200 when the transport accepts the mail.
C22_NoMarkupRelayed ==
    (last.op = "sendEmail" /\ MissingFields(Req) = {}) =>
        /\ Relayed
        /\ \A i, k \in 1..Len(RelayedText) :
            i < k => ~(RelayedText[i] = "<" /\ RelayedText[k] = ">")
        /\ ~Contains(RelayedText, <<"<","s","c","r","i","p","t",">">>)
        /\ ~Contains(RelayedText, <<"<","s","t","y","l","e",">">>)
        /\ \A p \in TextRuns(Req.message) : RunKept(Req.message, p, RelayedText)
        /\ last.outcome = Resolved => last.http = 200

\* The message of the integration test was relayed and answered with 200.
C22_Witness ==
    /\ Relayed
    /\ Req.message = XssMessage
    /\ Contains(RelayedText, <<"H","a","r","m","l","e","s","s"," ","t","e","x","t">>)
    /\ last.http = 200

(***************************************************************************)
(* The rate limiters                                                       *)
(***************************************************************************)
IsPost == last.op = "postSendEmail"

\* The POSTs the limiter of the route counted for the client in the running
\* window before the last one, and the limit it is configured with.
PostsBefore == last.hits[limiterConfig(last.hits.NODE_ENV).store]
EmailLimit == limiterConfig(last.hits.NODE_ENV).limit

\* The body the specification gives for a 429.
IsRateLimitBody(b) ==
    /\ b.success = FALSE
    /\ b.error = Text("Rate limit exceeded")
    /\ b.code = JsNum(429)
    /\ b.retryAfter.t = "number" /\ b.retryAfter.n >= 0

\* C23: from reset counters the first N valid POSTs of the client within a
\* window are admitted and answered 200, N being the configured email limit;
\* the next one is answered 429; and every 429 answered on this route has the
\* body {success: false, error: 'Rate limit exceeded', code: 429, retryAfter >= 0}.
C23_LimitPerWindow ==
    IsPost =>
        /\ (PostsBefore < EmailLimit /\ Req = ValidRequest /\ last.outcome = Resolved)
              => last.http = 200
        /\ PostsBefore >= EmailLimit => last.http = 429
        /\ last.http = 429 => IsRateLimitBody(last.body)

\* C24: a request answered 429 did not reach sendEmail: the transport was
\* handed nothing, and the file, its backup, the list in memory and the
\* mirror are what they were before the request.
C24_RejectedNeverReachesService ==
    (IsPost /\ last.http = 429) => last.sent = <<>> /\ State = last.pre

\* A valid request was turned away by the limiter of the route while the file
\* was gone: sendEmail would have written it anew.
C24_Witness ==
    /\ IsPost
    /\ last.http = 429
    /\ IsRateLimitBody(last.body)
    /\ Req = ValidRequest
    /\ file = AbsentFile

(***************************************************************************)
(* The store and the file under it                                         *)
(***************************************************************************)
\* The entries the file f holds for a call that loads it: its list, the seed
\* the load writes when there is no file, none when it does not parse.
Content(f) ==
    IF f.st = "absent" THEN initialContent
    ELSE IF f.st = "corrupt" THEN <<>>
    ELSE f.data

\* C25: every query and mutation of the store acts on what the file holds
\* when it is called, external edits included, never on the list in memory
\* from an earlier load: getBlacklist returns the entries of the file,
\* isBlockedMail answers for them, addMailToList persists them with the new
\* entry appended, and removeMailFromList persists a selection of them.
C25_ActsOnFileContent ==
    /\ IsStoreCall("getBlacklist") => last.returned = Content(last.pre.file)
    /\ IsStoreCall("isBlockedMail")
          => (last.result <=> Listed(Content(last.pre.file), last.email))
    /\ IsStoreCall("addMailToList")
          => /\ file.st = "ok"
             /\ SubSeq(file.data, 1, Len(file.data) - 1) = Content(last.pre.file)
    /\ IsStoreCall("removeMailFromList")
          => /\ last.result => file.st = "ok"
             /\ file.st = "ok" =>
                   \A i \in 1..Len(file.data) :
                       \E j \in 1..Len(Content(last.pre.file)) :
                           file.data[i] = Content(last.pre.file)[j]

\* The same for the files that parse or are absent.
C25_ParsableEdits ==
    last.pre.file.st # "corrupt" => C25_ActsOnFileContent

\* The mutations that save: addMailToList, clearList, and removeMailFromList
\* when it removed an entry.
Saved ==
    \/ IsStoreCall("addMailToList")
    \/ IsStoreCall("clearList")
    \/ IsStoreCall("removeMailFromList") /\ last.result

\* C26: when the copy onto the backup fails the save still stands: the file
\* holds the new snapshot -- with the added address, without an entry, or
\* shorter by the removed entries -- and the backup is left as it was.
C26_BackupFailureKeepsSave ==
    (Saved /\ last.pre.backup.st = "locked") =>
        /\ file = FileOf(blackList)
        /\ backup = last.pre.backup
        /\ IsStoreCall("addMailToList") => Listed(file.data, last.email)
        /\ IsStoreCall("clearList") => file.data = <<>>
        /\ IsStoreCall("removeMailFromList")
              => Len(file.data) < Len(Effective(last.pre))

\* An address was added to a file that held other entries while the backup
\* could not be written.
C26_Witness ==
    /\ IsStoreCall("addMailToList")
    /\ last.pre.backup.st = "locked"
    /\ last.pre.file.st = "ok" /\ last.pre.file.data # <<>>
    /\ ~Listed(last.pre.file.data, last.email)
    /\ Listed(file.data, last.email)

(***************************************************************************)
(* The service once closed                                                 *)
(***************************************************************************)
\* C27: a sendEmail called on an instance after its close() hands nothing to
\* the transport, and nothing is handed to a transport before the
\* constructor has created it.
C27_ClosedIsTerminal ==
    (last.op = "sendEmail" /\ last.sent # <<>>) =>
        /\ last.pre.phase = "constructed"
        /\ ~last.pre.closed

(***************************************************************************)
(* The addresses of a relayed mail                                         *)
(***************************************************************************)
\* C28 as stated: every mail handed to the transport goes to the configured
\* recipient, replies go to the sender of the request, whose address is also
\* the X-Original-Sender header, and neither `to` nor `from` depends on the
\* request: two mails relayed one after the other have the same `to` and
\* the same `from`.
C28_FromIsFixedIdentity ==
    [][Relayed' =>
          /\ last'.sent[1].to = recipientEmail
          /\ Contains(last'.sent[1].replyTo, last'.emailData.senderEmail)
          /\ last'.sent[1].headers.XOriginalSender = last'.emailData.senderEmail
          /\ Relayed => /\ last'.sent[1].to = last.sent[1].to
                        /\ last'.sent[1].from = last.sent[1].from]_vars

\* C28: every mail handed to the transport goes to the configured
\* recipient, which does not depend on the request; its `from` is the
\* senderName of the request in double quotes followed by the address of the
\* service in angle brackets; its replyTo holds the sender's address, which
\* is also the X-Original-Sender.
C28_FromAddressIsFixed ==
    Relayed =>
        /\ last.sent[1].to = recipientEmail
        /\ last.sent[1].from =
              <<"\"">> \o Req.senderName \o <<"\"", " ", "<">> \o recipientEmail \o <<">">>
        /\ Contains(last.sent[1].replyTo, Req.senderEmail)
        /\ last.sent[1].headers.XOriginalSender = Req.senderEmail

\* A mail of Eve was relayed: it names her, comes from the service's address
\* and is answered to hers.
C28_Witness ==
    /\ Relayed
    /\ Req.senderName = Eve
    /\ Req.senderEmail = Carol
    /\ Contains(last.sent[1].from, Eve)
    /\ Contains(last.sent[1].from, recipientEmail)
    /\ Contains(last.sent[1].replyTo, Carol)

(***************************************************************************)
(* The service in its environment                                          *)
(***************************************************************************)
\* A request of the sender x that nothing but the blocklist can stop.
RequestOf(x) == [ValidRequest EXCEPT !.senderEmail = x]

\* C29: when blockEmail(x) has resolved to true, x is blocked: an
\* isBlockedAddress(x) that follows returns true and a sendEmail from x is
\* turned down as BlockedSender, also when the mirror listed x while the
\* file did not, and when the file could not be written.
C29_BlockedAfterBlockEmail ==
    (last.op = "blockEmail" /\ last.returned) =>
        /\ isBlockedAddress(State, last.email).result
        /\ \E r \in {sendEmail(State, recipientEmail, RequestOf(last.email), Resolved)} :
            /\ r.sent = <<>>
            /\ r.result.code = JsNum(BlockedSender)

\* C30: sendEmail leaves the entries of the file as they are, whatever the
\* request and the outcome, also when the file does not parse.
C30_SendEmailKeepsFile ==
    last.op = "sendEmail" =>
        /\ Content(file) = Content(last.pre.file)
        /\ last.pre.file.st = "corrupt" => file = last.pre.file
====
